---- MODULE Spec2Model ----
(***************************************************************************)
(* Rooster password vault, container format v2 (src/src/password/v2.rs).   *)
(*                                                                         *)
(* State: the in-memory PasswordStore (key, scrypt parameters, salt,       *)
(* schema.passwords) and the content of the vault file.  One action per    *)
(* operation of PasswordStore.                                             *)
(*                                                                         *)
(* Cryptographic primitives are idealised: scrypt and HMAC-SHA512 are      *)
(* collision free, so a derived key is represented by the tuple of its     *)
(* inputs and a MAC by the tuple of the key and the authenticated fields.  *)
(* Opaque byte strings (salt, iv, tag, ciphertext) carry a few             *)
(* representative bits; the integer header fields keep their real width.   *)
(***************************************************************************)
EXTENDS Integers, Sequences, FiniteSets, TLC

VARIABLES store, file, origin, written, last

vars == <<store, file, origin, written, last>>

(***************************************************************************)
(* Program constants (v2.rs:51-68).                                        *)
(***************************************************************************)
SCRYPT_PARAM_LOG2_N == 12
SCRYPT_PARAM_R == 8
SCRYPT_PARAM_P == 1
VERSION == 2

\* Width in bits of the header integers: version, r, p are u32, log2_n is u8.
U32_BITS == 32
U8_BITS == 8
\* Block size of AES; ciphertext is padded to a multiple of it.
AES_BLOCK == 16
\* Width of usize on the 64-bit targets: ScryptParams rejects log2_n >= it.
USIZE_BITS == 64

(***************************************************************************)
(* Bounds of the model.                                                    *)
(***************************************************************************)
\* Longest record list built by add.
MaxRecords == 2
\* ffi::time() returns a timestamp in 0..MaxTime.
MaxTime == 0
\* generate_random_salt draws a salt in 0..MaxSalt.
MaxSalt == 1
\* generate_random_iv draws an iv in 0..MaxIv.
MaxIv == 0
\* Bits of each of salt, iv, MAC tag and ciphertext that tampering may flip.
OpaqueBits == 1

(***************************************************************************)
(* Option<T> as a sequence of length at most one.                          *)
(***************************************************************************)
None == <<>>

Some(x) == <<x>>

RECURSIVE Pow2(_)
Pow2(k) == IF k = 0 THEN 1 ELSE 2 * Pow2(k - 1)

\* n with bit k flipped.
FlipBit(n, k) == IF (n \div Pow2(k)) % 2 = 1 THEN n - Pow2(k) ELSE n + Pow2(k)

(***************************************************************************)
(* Strings are sequences of characters.  A character is named by a string; *)
(* A_STROKE is U+023A (2 bytes in UTF-8) and a_stroke is U+2C65, its       *)
(* lowercase (3 bytes).  QUOTE and BSLASH are the two characters JSON      *)
(* escapes.                                                                *)
(***************************************************************************)
Utf8Len(c) == CASE c = "A_STROKE" -> 2
                [] c = "a_stroke" -> 3
                [] OTHER -> 1

\* char::to_lowercase: the sequence of lowercase scalars of c.
ToLowercase(c) == CASE c = "Y" -> <<"y">>
                    [] c = "A_STROKE" -> <<"a_stroke">>
                    [] OTHER -> <<c>>

RECURSIVE StrLen(_)
\* str::len: the length in bytes.
StrLen(s) == IF s = <<>> THEN 0 ELSE Utf8Len(Head(s)) + StrLen(Tail(s))

\* s.chars().nth(i).map(|c| c.to_lowercase().nth(0))
LowerNth(s, i) == IF i < Len(s) THEN Some(Some(Head(ToLowercase(s[i + 1])))) ELSE None

\* The second name is the first in another ASCII case; the third is the
\* second in another non-ASCII case.
AppNames == { <<"Y", "a_stroke">>, <<"y", "a_stroke">>, <<"y", "A_STROKE">> }

Usernames == { <<"m", "QUOTE", "e">> }

Secrets == { <<"BSLASH", "s", "QUOTE">> }

\* The passphrases vaults are created with, and those tried and changed to.
MasterPassphrases == { "hunter2" }

Passphrases == { "hunter2", "hunter3" }

Salts == 0 .. MaxSalt

Ivs == 0 .. MaxIv

Times == 0 .. MaxTime

\* Password::new: both timestamps are the one value of ffi::time().
PasswordNew(name, username, password, timestamp) ==
    [name |-> name, username |-> username, password |-> password,
     created_at |-> timestamp, updated_at |-> timestamp]

(***************************************************************************)
(* PasswordStore queries.                                                  *)
(***************************************************************************)
\* The comparison of get_password's loop body: same byte length, then the
\* first lowercase scalar of every character position below the byte length.
NameMatchesLen(pname, name) == StrLen(pname) = StrLen(name)

NameMatches(pname, name) ==
    /\ NameMatchesLen(pname, name)
    /\ \A i \in 0 .. (StrLen(pname) - 1) : LowerNth(pname, i) = LowerNth(name, i)

\* Index of the record get_password returns, 0 when it returns None.
GetPasswordIndex(passwords, name) ==
    LET hits == { i \in 1 .. Len(passwords) : NameMatches(passwords[i].name, name) }
    IN  IF hits = {} THEN 0 ELSE CHOOSE i \in hits : \A j \in hits : i <= j

GetPassword(passwords, name) ==
    LET i == GetPasswordIndex(passwords, name)
    IN  IF i = 0 THEN None ELSE Some(passwords[i])

HasPassword(passwords, name) == GetPassword(passwords, name) # None

\* Vec::remove(i), 1-based.
Remove(seq, i) == SubSeq(seq, 1, i - 1) \o SubSeq(seq, i + 1, Len(seq))

\* Index delete_password's while loop stops at for the record p, 0 when the
\* loop runs off the end (unreachable!()).
DeleteIndex(passwords, p) ==
    LET hits == { i \in 1 .. Len(passwords) : passwords[i].name = p.name }
    IN  IF hits = {} THEN 0 ELSE CHOOSE i \in hits : \A j \in hits : i <= j

(***************************************************************************)
(* The record codec: json::encode / json::decode of Schema.  A JSON text   *)
(* is kept as its list of records, each field in its encoded form (string  *)
(* bodies with escapes, integers as decimal digits); a text that is not of *)
(* the schema's shape is NotJson.                                          *)
(***************************************************************************)
\* A faulty encoder that escapes nothing: the round trip of a string holding
\* a quote or a backslash fails with it.
EscapeCharVerbatim(c) == <<c>>

\* The encoded form of one character of a JSON string.
EscapeChar(c) == CASE c = "QUOTE" -> <<"BSLASH", "QUOTE">>
                   [] c = "BSLASH" -> <<"BSLASH", "BSLASH">>
                   [] OTHER -> <<c>>

RECURSIVE EscapeStr(_)
EscapeStr(s) == IF s = <<>> THEN <<>> ELSE EscapeChar(Head(s)) \o EscapeStr(Tail(s))

RECURSIVE UnescapeStr(_)
\* None when the body holds a bare quote or a backslash that escapes nothing.
UnescapeStr(e) ==
    IF e = <<>> THEN Some(<<>>)
    ELSE IF Head(e) = "QUOTE" THEN None
    ELSE IF Head(e) = "BSLASH"
         THEN IF Len(e) >= 2 /\ e[2] \in {"QUOTE", "BSLASH"}
              THEN LET rest == UnescapeStr(SubSeq(e, 3, Len(e)))
                   IN  IF rest = None THEN None ELSE Some(<<e[2]>> \o rest[1])
              ELSE None
    ELSE LET rest == UnescapeStr(Tail(e))
         IN  IF rest = None THEN None ELSE Some(<<Head(e)>> \o rest[1])

RECURSIVE EncodeInt(_)
\* The decimal digits of n >= 0, most significant first.
EncodeInt(n) == IF n < 10 THEN <<n>> ELSE EncodeInt(n \div 10) \o <<n % 10>>

RECURSIVE DecodeInt(_)
DecodeInt(d) == IF Len(d) = 1 THEN d[1]
                ELSE 10 * DecodeInt(SubSeq(d, 1, Len(d) - 1)) + d[Len(d)]

EncodePassword(p) ==
    [name |-> EscapeStr(p.name), username |-> EscapeStr(p.username),
     password |-> EscapeStr(p.password),
     created_at |-> EncodeInt(p.created_at), updated_at |-> EncodeInt(p.updated_at)]

\* None when a string of the record does not decode.
DecodePassword(e) ==
    LET n == UnescapeStr(e.name)
        u == UnescapeStr(e.username)
        s == UnescapeStr(e.password)
    IN  IF n = None \/ u = None \/ s = None THEN None
        ELSE Some([name |-> n[1], username |-> u[1], password |-> s[1],
                   created_at |-> DecodeInt(e.created_at),
                   updated_at |-> DecodeInt(e.updated_at)])

NotJson == [wellFormed |-> FALSE, passwords |-> <<>>]

\* json::encode(&self.schema)
JsonEncode(passwords) ==
    [wellFormed |-> TRUE,
     passwords |-> [i \in 1 .. Len(passwords) |-> EncodePassword(passwords[i])]]

\* json::decode::<Schema>: Some(passwords), or None for InvalidJsonError.
JsonDecode(text) ==
    IF ~text.wellFormed THEN None
    ELSE IF \E i \in 1 .. Len(text.passwords) : DecodePassword(text.passwords[i]) = None
    THEN None
    ELSE Some([i \in 1 .. Len(text.passwords) |-> DecodePassword(text.passwords[i])[1]])

RECURSIVE RecordsLen(_)
\* Bytes of the records of a JSON text, with the commas between them:
\* {"name":"..","username":"..","password":"..","created_at":N,"updated_at":N}
RecordsLen(es) ==
    IF es = <<>> THEN 0
    ELSE LET e == Head(es)
         IN  67 + StrLen(e.name) + StrLen(e.username) + StrLen(e.password)
                + Len(e.created_at) + Len(e.updated_at)
                + (IF Len(es) > 1 THEN 1 ELSE 0) + RecordsLen(Tail(es))

\* Bytes of a text: {"passwords":[ ... ]} around the records.
TextLen(text) == IF text.wellFormed THEN 16 + RecordsLen(text.passwords) ELSE 1

(***************************************************************************)
(* The cipher (module aes, not among the sources): AES-256-CBC with PKCS#7 *)
(* padding.  A ciphertext is the triple it was made from, its length, and  *)
(* the mask of the bits flipped in it since.                               *)
(***************************************************************************)
AesEncrypt(pt, key, iv) ==
    [key |-> key, iv |-> iv, pt |-> pt,
     len |-> (TextLen(pt) \div AES_BLOCK + 1) * AES_BLOCK,
     padOk |-> TRUE, flip |-> 0]

\* The possible results: Some(plaintext), or None for a decryption error.
\* A ciphertext altered, or made under another key or iv, decrypts to
\* garbage whose padding may or may not check.
AesDecrypt(blob, key, iv) ==
    IF blob.len = 0 \/ blob.len % AES_BLOCK # 0 \/ ~blob.padOk THEN { None }
    ELSE IF blob.key = key /\ blob.iv = iv /\ blob.flip = 0 THEN { Some(blob.pt) }
    ELSE { None, Some(NotJson) }

EmptyBlob == [key |-> <<>>, iv |-> 0, pt |-> NotJson, len |-> 0, padOk |-> FALSE, flip |-> 0]

(***************************************************************************)
(* Key derivation and MAC.                                                 *)
(***************************************************************************)
\* scrypt::ScryptParams::new accepts the parameters (it has no error
\* result: it does not return when it rejects them).
ScryptParamsAccepted(log2_n, r, p) ==
    /\ r > 0
    /\ p > 0
    /\ log2_n > 0
    /\ log2_n < USIZE_BITS

\* generate_encryption_key: scrypt of (password, salt, params).
GenerateEncryptionKey(log2_n, r, p, master_password, salt) ==
    <<master_password, salt, log2_n, r, p>>

\* A faulty MAC that leaves the key out: it verifies under any passphrase.
DigestUnkeyed(key, version, log2_n, r, p, iv, salt, blob) ==
    [mac |-> <<version, log2_n, r, p, iv, salt, blob>>, flip |-> 0]

\* digest(...).result(): HMAC-SHA512 under key of version, scrypt
\* parameters, iv, salt, blob, in this order.
Digest(key, version, log2_n, r, p, iv, salt, blob) ==
    [mac |-> <<key, version, log2_n, r, p, iv, salt, blob>>, flip |-> 0]

NoSignature == [mac |-> <<>>, flip |-> 0]

(***************************************************************************)
(* The container: `fields` counts the header fields that are complete      *)
(* (version, log2_n, r, p, salt, iv, signature); the blob is the rest.     *)
(***************************************************************************)
HEADER_FIELDS == 7

EmptyFile ==
    [fields |-> 0, version |-> 0, log2_n |-> 0, r |-> 0, p |-> 0, salt |-> 0,
     iv |-> 0, signature |-> NoSignature, blob |-> EmptyBlob]

\* The first k header fields of a container, the rest missing.
Truncated(c, k) ==
    [fields |-> k,
     version |-> IF k >= 1 THEN c.version ELSE 0,
     log2_n |-> IF k >= 2 THEN c.log2_n ELSE 0,
     r |-> IF k >= 3 THEN c.r ELSE 0,
     p |-> IF k >= 4 THEN c.p ELSE 0,
     salt |-> IF k >= 5 THEN c.salt ELSE 0,
     iv |-> IF k >= 6 THEN c.iv ELSE 0,
     signature |-> IF k >= 7 THEN c.signature ELSE NoSignature,
     blob |-> EmptyBlob]

NoStore ==
    [live |-> FALSE, key |-> <<>>, scrypt_log2_n |-> 0, scrypt_r |-> 0,
     scrypt_p |-> 0, salt |-> 0, passwords |-> <<>>]

Result(res, s) == [res |-> res, store |-> s]

\* PasswordStore::from_input: the possible results on (master_password,
\* input).  "Abort" is the call not returning.
FromInput(master_password, input) ==
    IF input.fields < 1 THEN { Result("Io", NoStore) }
    ELSE IF input.version # VERSION THEN { Result("WrongVersionError", NoStore) }
    ELSE IF input.fields < HEADER_FIELDS THEN { Result("Io", NoStore) }
    ELSE IF ~ScryptParamsAccepted(input.log2_n, input.r, input.p)
    THEN { Result("Abort", NoStore) }
    ELSE LET key == GenerateEncryptionKey(input.log2_n, input.r, input.p,
                                          master_password, input.salt)
             new_signature_mac == Digest(key, input.version, input.log2_n, input.r,
                                         input.p, input.iv, input.salt, input.blob)
         IN  IF new_signature_mac # input.signature
             THEN { Result("CorruptionError", NoStore) }
             ELSE { IF d = None THEN Result("DecryptionError", NoStore)
                    ELSE IF JsonDecode(d[1]) = None
                    THEN Result("InvalidJsonError", NoStore)
                    ELSE Result("Ok", [live |-> TRUE, key |-> key,
                                       scrypt_log2_n |-> input.log2_n,
                                       scrypt_r |-> input.r,
                                       scrypt_p |-> input.p,
                                       salt |-> input.salt,
                                       passwords |-> JsonDecode(d[1])[1]])
                    : d \in AesDecrypt(input.blob, key, input.iv) }

\* A faulty sync that writes the parameters of PasswordStore::new in place
\* of the store's own.
SyncContainerDefaults(s, iv) ==
    LET json_schema == JsonEncode(s.passwords)
        encrypted == AesEncrypt(json_schema, s.key, iv)
    IN  [fields |-> HEADER_FIELDS, version |-> VERSION, log2_n |-> SCRYPT_PARAM_LOG2_N,
         r |-> SCRYPT_PARAM_R, p |-> SCRYPT_PARAM_P, salt |-> s.salt, iv |-> iv,
         signature |-> Digest(s.key, VERSION, SCRYPT_PARAM_LOG2_N, SCRYPT_PARAM_R,
                              SCRYPT_PARAM_P, iv, s.salt, encrypted),
         blob |-> encrypted]

\* What a sync that succeeds writes, for the iv it drew.
SyncContainer(s, iv) ==
    LET json_schema == JsonEncode(s.passwords)
        encrypted == AesEncrypt(json_schema, s.key, iv)
    IN  [fields |-> HEADER_FIELDS, version |-> VERSION, log2_n |-> s.scrypt_log2_n,
         r |-> s.scrypt_r, p |-> s.scrypt_p, salt |-> s.salt, iv |-> iv,
         signature |-> Digest(s.key, VERSION, s.scrypt_log2_n, s.scrypt_r,
                              s.scrypt_p, iv, s.salt, encrypted),
         blob |-> encrypted]

(***************************************************************************)
(* Inputs of the operations.                                               *)
(***************************************************************************)
NewRecords ==
    { PasswordNew(n, u, s, t) : n \in AppNames, u \in Usernames, s \in Secrets, t \in Times }

RECURSIVE ListsUpTo(_)
\* The record lists of length at most k.
ListsUpTo(k) ==
    IF k = 0 THEN { <<>> }
    ELSE LET shorter == ListsUpTo(k - 1)
         IN  shorter \cup { Append(l, r) : l \in { x \in shorter : Len(x) = k - 1 },
                                           r \in NewRecords }

\* A vault of this format written by another writer: its own scrypt
\* parameters and salt, and a record list in which a name occurs twice up
\* to letter case, which add_password never builds.
ForeignParams == <<14, 8, 1>>

ForeignStore(master_password, passwords) ==
    [live |-> TRUE,
     key |-> GenerateEncryptionKey(ForeignParams[1], ForeignParams[2], ForeignParams[3],
                                   master_password, 0),
     scrypt_log2_n |-> ForeignParams[1], scrypt_r |-> ForeignParams[2],
     scrypt_p |-> ForeignParams[3], salt |-> 0, passwords |-> passwords]

ForeignLists ==
    { l \in ListsUpTo(MaxRecords) :
        \E i, j \in 1 .. Len(l) : i # j /\ NameMatches(l[i].name, l[j].name) }

\* The file of that writer: the same layout, its blob and tag made with the
\* same primitives.
ForeignContainer(f) ==
    LET encrypted == AesEncrypt(JsonEncode(f.passwords), f.key, 0)
    IN  [fields |-> HEADER_FIELDS, version |-> VERSION, log2_n |-> f.scrypt_log2_n,
         r |-> f.scrypt_r, p |-> f.scrypt_p, salt |-> f.salt, iv |-> 0,
         signature |-> Digest(f.key, VERSION, f.scrypt_log2_n, f.scrypt_r, f.scrypt_p,
                              0, f.salt, encrypted),
         blob |-> encrypted]

ForeignContainers ==
    { ForeignContainer(ForeignStore(pw, l)) : pw \in MasterPassphrases, l \in ForeignLists }

(***************************************************************************)
(* The operations as functions of the store.                               *)
(***************************************************************************)
\* PasswordStore::new, for the salt generate_random_salt drew.
StoreNew(master_password, salt) ==
    [live |-> TRUE,
     key |-> GenerateEncryptionKey(SCRYPT_PARAM_LOG2_N, SCRYPT_PARAM_R, SCRYPT_PARAM_P,
                                   master_password, salt),
     scrypt_log2_n |-> SCRYPT_PARAM_LOG2_N, scrypt_r |-> SCRYPT_PARAM_R,
     scrypt_p |-> SCRYPT_PARAM_P, salt |-> salt, passwords |-> <<>>]

Outcome(res, s, ret) == [res |-> res, store |-> s, ret |-> ret]

\* A faulty add_password that inserts the record at the front.
AddPasswordFront(s, password) ==
    IF HasPassword(s.passwords, password.name)
    THEN Outcome("AppExistsError", s, None)
    ELSE Outcome("Ok", [s EXCEPT !.passwords = <<password>> \o @], None)

\* add_password
AddPassword(s, password) ==
    IF HasPassword(s.passwords, password.name)
    THEN Outcome("AppExistsError", s, None)
    ELSE Outcome("Ok", [s EXCEPT !.passwords = Append(@, password)], None)

\* delete_password; "Panic" is unreachable!(), after which there is no store.
DeletePassword(s, name) ==
    LET p == GetPassword(s.passwords, name)
    IN  IF p = None THEN Outcome("NoSuchAppError", s, None)
        ELSE LET i == DeleteIndex(s.passwords, p[1])
             IN  IF i = 0 THEN Outcome("Panic", NoStore, None)
                 ELSE Outcome("Ok", [s EXCEPT !.passwords = Remove(@, i)],
                              Some(s.passwords[i]))

\* A faulty change_master_password that derives the key with the parameters
\* of PasswordStore::new in place of the store's own.
ChangeMasterPasswordDefaults(s, master_password) ==
    [s EXCEPT !.key = GenerateEncryptionKey(SCRYPT_PARAM_LOG2_N, SCRYPT_PARAM_R,
                                            SCRYPT_PARAM_P, master_password, s.salt)]

\* change_master_password
ChangeMasterPassword(s, master_password) ==
    [s EXCEPT !.key = GenerateEncryptionKey(s.scrypt_log2_n, s.scrypt_r, s.scrypt_p,
                                            master_password, s.salt)]

(***************************************************************************)
(* History of the run: the salt and parameters the store had when it was   *)
(* created or opened; the key and record list of the store sync wrote the  *)
(* file's container from, when the file holds a complete one; the last     *)
(* operation, its result and the record it returned.                       *)
(***************************************************************************)
NoOrigin == [salt |-> 0, log2_n |-> 0, r |-> 0, p |-> 0]

OriginOf(s) == [salt |-> s.salt, log2_n |-> s.scrypt_log2_n, r |-> s.scrypt_r, p |-> s.scrypt_p]

NotWritten == [ok |-> FALSE, key |-> <<>>, passwords |-> <<>>]

WrittenFrom(s) == [ok |-> TRUE, key |-> s.key, passwords |-> s.passwords]

Op(op, res, ret) == [op |-> op, res |-> res, ret |-> ret]

\* The passphrase a key was derived from.
KeyPassphrase(key) == key[1]

Init ==
    /\ store = NoStore
    /\ file = EmptyFile
    /\ origin = NoOrigin
    /\ written = NotWritten
    /\ last = Op("init", "Ok", None)

New(master_password) ==
    \/ \E salt \in Salts :
          /\ store' = StoreNew(master_password, salt)
          /\ origin' = OriginOf(store')
          /\ last' = Op("new", "Ok", None)
          /\ UNCHANGED <<file, written>>
    \/ \* generate_random_salt fails
       /\ last' = Op("new", "Io", None)
       /\ UNCHANGED <<store, file, origin, written>>

\* from_input on the bytes `input`.  A call that fails leaves the caller
\* with the store it had; one that does not return leaves it with none.
FromInputStep(master_password, op, input) ==
    \E r \in FromInput(master_password, input) :
       /\ store' = IF r.res = "Ok" THEN r.store
                   ELSE IF r.res = "Abort" THEN NoStore ELSE store
       /\ origin' = IF r.res = "Ok" THEN OriginOf(r.store)
                    ELSE IF r.res = "Abort" THEN NoOrigin ELSE origin
       /\ last' = Op(op, r.res, None)
       /\ UNCHANGED <<file, written>>

Open(master_password) == FromInputStep(master_password, "open", file)

OpenForeign(master_password) ==
    \E input \in ForeignContainers : FromInputStep(master_password, "open_foreign", input)

Add(password) ==
    /\ store.live
    /\ LET out == AddPassword(store, password)
       IN  /\ Len(out.store.passwords) <= MaxRecords
           /\ store' = out.store
           /\ last' = Op("add", out.res, out.ret)
    /\ UNCHANGED <<file, origin, written>>

Delete(name) ==
    /\ store.live
    /\ LET out == DeletePassword(store, name)
       IN  /\ store' = out.store
           /\ origin' = IF out.res = "Panic" THEN NoOrigin ELSE origin
           /\ last' = Op("delete", out.res, out.ret)
    /\ UNCHANGED <<file, written>>

\* commands/get.rs callback_exec: Ok when get_password finds a record.
Get(name) ==
    /\ store.live
    /\ last' = Op("get", IF GetPassword(store.passwords, name) # None THEN "Ok" ELSE "Err",
                  None)
    /\ UNCHANGED <<store, file, origin, written>>

Rekey(master_password) ==
    /\ store.live
    /\ store' = ChangeMasterPassword(store, master_password)
    /\ last' = Op("rekey", "Ok", None)
    /\ UNCHANGED <<file, origin, written>>

(***************************************************************************)
(* sync: the iv is drawn and the schema encrypted before the file is       *)
(* touched; then the file is truncated and the fields written in order.    *)
(* A write that fails leaves the fields written before it.                 *)
(***************************************************************************)
\* One result of sync: the error or Ok, for an Io error the call that raised
\* it ("set_len" stands for seek followed by set_len), the content of the
\* file after the call, and how much of a container the call wrote
\* ("nothing", "part", "all").
SyncOutcome(res, at, f, wrote) == [res |-> res, at |-> at, file |-> f, wrote |-> wrote]

\* A faulty sync that resets the file before it encodes and encrypts.
SyncOutcomesResetFirst(s, f) ==
    { SyncOutcome("InvalidJsonError", "", EmptyFile, "part"),
      SyncOutcome("Io", "generate_random_iv", EmptyFile, "part"),
      SyncOutcome("EncryptionError", "", EmptyFile, "part"),
      SyncOutcome("Io", "set_len", f, "nothing") }
    \cup UNION { { SyncOutcome("Io", "write_all", Truncated(SyncContainer(s, iv), k), "part") :
                      k \in 0 .. HEADER_FIELDS }
                 \cup { SyncOutcome("Io", "sync_all", SyncContainer(s, iv), "all"),
                        SyncOutcome("Ok", "", SyncContainer(s, iv), "all") } :
                 iv \in Ivs }

\* PasswordStore::sync on store s and a file holding f: its possible
\* results, in the order of the calls that can fail.  The write of header
\* field k + 1 (of the blob, for k = HEADER_FIELDS) fails after k fields
\* went out.
SyncOutcomes(s, f) ==
    { SyncOutcome("InvalidJsonError", "", f, "nothing"),
      SyncOutcome("Io", "generate_random_iv", f, "nothing"),
      SyncOutcome("EncryptionError", "", f, "nothing"),
      SyncOutcome("Io", "set_len", f, "nothing") }
    \cup UNION { { SyncOutcome("Io", "write_all", Truncated(SyncContainer(s, iv), k), "part") :
                      k \in 0 .. HEADER_FIELDS }
                 \cup { SyncOutcome("Io", "sync_all", SyncContainer(s, iv), "all"),
                        SyncOutcome("Ok", "", SyncContainer(s, iv), "all") } :
                 iv \in Ivs }

Sync ==
    /\ store.live
    /\ UNCHANGED <<store, origin>>
    /\ \E o \in SyncOutcomes(store, file) :
          /\ file' = o.file
          /\ written' = CASE o.wrote = "all" -> WrittenFrom(store)
                          [] o.wrote = "part" -> NotWritten
                          [] OTHER -> written
          /\ last' = Op("sync", o.res, None)

Next ==
    \/ \E pw \in MasterPassphrases : New(pw)
    \/ \E pw \in Passphrases : Open(pw)
    \/ \E pw \in Passphrases : OpenForeign(pw)
    \/ \E r \in NewRecords : Add(r)
    \/ \E n \in AppNames : Delete(n)
    \/ \E n \in AppNames : Get(n)
    \/ \E pw \in Passphrases : Rekey(pw)
    \/ Sync

Spec == Init /\ [][Next]_vars

(***************************************************************************)
(* from_input as a function of arbitrary bytes: the inputs are drawn in    *)
(* the initial state and the one action opens them.                        *)
(***************************************************************************)
\* Scrypt parameters of crafted inputs: the defaults and out-of-range ones.
CraftedParams == { <<12, 8, 1>>, <<12, 0, 1>>, <<12, 8, 0>>, <<0, 8, 1>>, <<64, 8, 1>> }

CraftedTexts == { NotJson, JsonEncode(<<>>) } \cup { JsonEncode(<<r>>) : r \in NewRecords }

\* Ciphertexts of crafted inputs under key and iv: well formed ones, one
\* whose padding does not check, one cut inside a block, one made under
\* another iv, and none at all.
CraftedBlobs(key, iv) ==
    { AesEncrypt(t, key, iv) : t \in CraftedTexts }
    \cup { [AesEncrypt(NotJson, key, iv) EXCEPT !.padOk = FALSE],
           [AesEncrypt(NotJson, key, iv) EXCEPT !.len = @ - 1],
           AesEncrypt(JsonEncode(<<>>), key, iv + 1),
           EmptyBlob }

\* The complete inputs with parameters q: any version, a tag that is the
\* MAC under a passphrase or is not, any crafted ciphertext.
CraftedComplete(q) ==
    LET key == GenerateEncryptionKey(q[1], q[2], q[3], "hunter2", 0)
    IN  { [fields |-> HEADER_FIELDS, version |-> v, log2_n |-> q[1], r |-> q[2],
           p |-> q[3], salt |-> 0, iv |-> 0,
           signature |-> IF signed THEN Digest(key, v, q[1], q[2], q[3], 0, 0, blob)
                         ELSE NoSignature,
           blob |-> blob] :
            v \in {1, 2, 3}, signed \in BOOLEAN, blob \in CraftedBlobs(key, 0) }

CraftedInputs ==
    UNION { CraftedComplete(q) \cup
            { Truncated(c, k) : c \in CraftedComplete(q), k \in 0 .. (HEADER_FIELDS - 1) } :
            q \in CraftedParams }

InitOpen ==
    /\ store = NoStore
    /\ file \in CraftedInputs
    /\ origin = NoOrigin
    /\ written = NotWritten
    /\ last = Op("init", "Ok", None)

NextOpen == \E pw \in Passphrases : Open(pw)

SpecOpen == InitOpen /\ [][NextOpen]_vars

(***************************************************************************)
(* Properties.                                                             *)
(***************************************************************************)
\* The passphrase the file's container was written under.
WrittenPassphrase == KeyPassphrase(written.key)

\* C1 (round trip): whenever the file holds the container sync wrote from a
\* store with a non-empty record list, from_input with the passphrase of
\* that store's key on the file's bytes succeeds, and the store it returns
\* has the same record list, record by record and in the same order.
C1_RoundTrip ==
    (written.ok /\ written.passwords # <<>>) =>
        \A r \in FromInput(WrittenPassphrase, file) :
            /\ r.res = "Ok"
            /\ Len(r.store.passwords) = Len(written.passwords)
            /\ \A i \in 1 .. Len(written.passwords) :
                  /\ r.store.passwords[i].name = written.passwords[i].name
                  /\ r.store.passwords[i].username = written.passwords[i].username
                  /\ r.store.passwords[i].password = written.passwords[i].password
                  /\ r.store.passwords[i].created_at = written.passwords[i].created_at
                  /\ r.store.passwords[i].updated_at = written.passwords[i].updated_at

\* A store created by new, filled by add to two records, written by
\* sync and opened again from the file.
C1_Witness ==
    /\ last.op = "open"
    /\ last.res = "Ok"
    /\ written.ok
    /\ Len(written.passwords) >= 2
    /\ store.passwords = written.passwords
    /\ store.key = written.key
    /\ store.scrypt_log2_n = SCRYPT_PARAM_LOG2_N

\* C2 (wrong passphrase): whenever the file holds a container sync wrote,
\* from_input with any other passphrase than the one of the writing store's
\* key returns CorruptionError and nothing else.
C2_WrongPassphrase ==
    written.ok =>
        \A pw2 \in Passphrases \ { WrittenPassphrase } :
            FromInput(pw2, file) = { Result("CorruptionError", NoStore) }

\* An open of the written file that was refused as corrupt; the file being
\* as sync wrote it, the passphrase was not the writer's.
C2_Witness ==
    /\ last.op = "open"
    /\ last.res = "CorruptionError"
    /\ written.ok
    /\ written.passwords # <<>>

(***************************************************************************)
(* Tampering: one bit of one field of a container flipped.                 *)
(***************************************************************************)
TamperFields == { "version", "log2_n", "r", "p", "salt", "iv", "mac_tag", "ciphertext" }

\* The bits of field f that are flipped: every bit of the integer fields,
\* OpaqueBits bits of the opaque ones.
TamperBits(f) ==
    IF f \in { "version", "r", "p" } THEN 0 .. (U32_BITS - 1)
    ELSE IF f = "log2_n" THEN 0 .. (U8_BITS - 1)
    ELSE 0 .. (OpaqueBits - 1)

Tampered(c, f, k) ==
    CASE f = "version" -> [c EXCEPT !.version = FlipBit(@, k)]
      [] f = "log2_n" -> [c EXCEPT !.log2_n = FlipBit(@, k)]
      [] f = "r" -> [c EXCEPT !.r = FlipBit(@, k)]
      [] f = "p" -> [c EXCEPT !.p = FlipBit(@, k)]
      [] f = "salt" -> [c EXCEPT !.salt = FlipBit(@, k)]
      [] f = "iv" -> [c EXCEPT !.iv = FlipBit(@, k)]
      [] f = "mac_tag" -> [c EXCEPT !.signature.flip = FlipBit(@, k)]
      [] f = "ciphertext" -> [c EXCEPT !.blob.flip = FlipBit(@, k)]

\* C3 (tamper detection): whenever the file holds a container sync wrote,
\* from_input with the writer's passphrase on that container with any one
\* bit flipped returns WrongVersionError when the bit is in the version
\* field and CorruptionError when it is in any other field, and nothing
\* else.
C3_TamperDetected ==
    written.ok =>
        \A f \in TamperFields : \A k \in TamperBits(f) :
            \A r \in FromInput(WrittenPassphrase, Tampered(file, f, k)) :
                r.res = IF f = "version" THEN "WrongVersionError" ELSE "CorruptionError"

\* The tag of input c is the MAC of its fields under the key derived from
\* master_password.
MacVerifies(master_password, c) ==
    c.signature = Digest(GenerateEncryptionKey(c.log2_n, c.r, c.p, master_password, c.salt),
                         c.version, c.log2_n, c.r, c.p, c.iv, c.salt, c.blob)

\* C4 (verification order): for any input and passphrase, from_input
\* returns WrongVersionError whenever the version field is there and is not
\* 2; CorruptionError whenever the version is 2, the header is complete and
\* the tag is not the MAC; DecryptionError only when the tag is the MAC;
\* InvalidJsonError only when the tag is the MAC and the ciphertext can
\* decrypt.
C4_VerificationOrder ==
    \A pw \in Passphrases : \A r \in FromInput(pw, file) :
        /\ (file.fields >= 1 /\ file.version # VERSION) => r.res = "WrongVersionError"
        /\ (file.fields = HEADER_FIELDS /\ file.version = VERSION /\ ~MacVerifies(pw, file))
              => r.res = "CorruptionError"
        /\ r.res = "DecryptionError" => MacVerifies(pw, file)
        /\ r.res = "InvalidJsonError" =>
              /\ MacVerifies(pw, file)
              /\ \E d \in AesDecrypt(file.blob,
                                     GenerateEncryptionKey(file.log2_n, file.r, file.p,
                                                           pw, file.salt),
                                     file.iv) : d # None

RECURSIVE Lowercase(_)
\* str::to_lowercase: every character replaced by its lowercase scalars.
Lowercase(s) == IF s = <<>> THEN <<>> ELSE ToLowercase(Head(s)) \o Lowercase(Tail(s))

\* Two names are equal under case-insensitive comparison.
EqIgnoreCase(a, b) == Lowercase(a) = Lowercase(b)

\* C5 (uniqueness of names): in the state after an add_password that
\* succeeded, no two records of the list have names equal under
\* case-insensitive comparison.
C5_UniqueNames ==
    (last.op = "add" /\ last.res = "Ok") =>
        \A i, j \in 1 .. Len(store.passwords) :
            i # j => ~EqIgnoreCase(store.passwords[i].name, store.passwords[j].name)

\* C6 (add): for every store reached and every record, add_password returns
\* AppExistsError and the store as it was (record list, key, salt, scrypt
\* parameters) when has_password(record.name), and otherwise succeeds with
\* the list extended by the record at its end, the earlier records and the
\* rest of the store as they were.
C6_Add ==
    store.live =>
        \A rec \in NewRecords :
            LET out == AddPassword(store, rec)
                old == store.passwords
                new == out.store.passwords
            IN  /\ out.store.key = store.key
                /\ out.store.salt = store.salt
                /\ OriginOf(out.store) = OriginOf(store)
                /\ IF HasPassword(old, rec.name)
                   THEN out.res = "AppExistsError" /\ new = old
                   ELSE /\ out.res = "Ok"
                        /\ Len(new) = Len(old) + 1
                        /\ new[Len(new)] = rec
                        /\ \A i \in 1 .. Len(old) : new[i] = old[i]

\* An add that succeeded on a store that held a record already.
C6_Witness ==
    /\ last.op = "add"
    /\ last.res = "Ok"
    /\ Len(store.passwords) >= 2

\* Index of the first record whose name equals name under case-insensitive
\* comparison, 0 when there is none.
FirstIgnoreCase(passwords, name) ==
    LET hits == { i \in 1 .. Len(passwords) : EqIgnoreCase(passwords[i].name, name) }
    IN  IF hits = {} THEN 0 ELSE CHOOSE i \in hits : \A j \in hits : i <= j

\* C7 (delete): for every store reached and every name, delete_password
\* returns NoSuchAppError and the store as it was when get_password finds
\* nothing; otherwise it never panics, returns the record at the position
\* get_password matched, which is the first record whose name equals the
\* name case-insensitively, and leaves the list without that position,
\* the other records in place and in order.
C7_Delete ==
    store.live =>
        \A name \in AppNames :
            LET out == DeletePassword(store, name)
                old == store.passwords
                i == GetPasswordIndex(old, name)
            IN  /\ out.res # "Panic"
                /\ IF GetPassword(old, name) = None
                   THEN out.res = "NoSuchAppError" /\ out.store = store
                   ELSE /\ out.res = "Ok"
                        /\ i = FirstIgnoreCase(old, name)
                        /\ out.ret = Some(old[i])
                        /\ out.store.passwords = Remove(old, i)
                        /\ Len(out.store.passwords) = Len(old) - 1
                        /\ out.store.key = store.key
                        /\ OriginOf(out.store) = OriginOf(store)

\* C8 (case-insensitive lookup): for every store reached and any two names
\* that differ only in letter case, get_password returns the same for both.
C8_GetIgnoresCase ==
    store.live =>
        \A n1, n2 \in AppNames :
            EqIgnoreCase(n1, n2) =>
                GetPassword(store.passwords, n1) = GetPassword(store.passwords, n2)

\* C9 (rekey): for every store reached and passphrase pw, the store after
\* change_master_password(pw) differs from it in the key alone, and
\* from_input with pw on what sync then writes succeeds with the same
\* record list.
C9_Rekey ==
    store.live =>
        \A pw \in Passphrases :
            LET rekeyed == ChangeMasterPassword(store, pw)
            IN  /\ rekeyed.passwords = store.passwords
                /\ rekeyed.salt = store.salt
                /\ OriginOf(rekeyed) = OriginOf(store)
                /\ \A iv \in Ivs : \A r \in FromInput(pw, SyncContainer(rekeyed, iv)) :
                      r.res = "Ok" /\ r.store.passwords = store.passwords

\* A vault created under one passphrase, rekeyed to the other, written and
\* opened again under the new one.
C9_Witness ==
    /\ last.op = "open"
    /\ last.res = "Ok"
    /\ written.ok
    /\ store.key = written.key
    /\ KeyPassphrase(store.key) \notin MasterPassphrases
    /\ store.passwords = written.passwords
    /\ store.passwords # <<>>

C11_InvalidParameters ==
    (file.fields = HEADER_FIELDS /\ file.version = VERSION
        /\ ~ScryptParamsAccepted(file.log2_n, file.r, file.p)) =>
        \A pw \in Passphrases : \A r \in FromInput(pw, file) :
            r.res = "InvalidParameters" /\ r.store = NoStore

\* The results sync returns before it has touched the file: a failure of
\* the JSON encoding, of the random source, or of the encryption.
SyncFailsInPreparation(o) ==
    \/ o.res \in { "InvalidJsonError", "EncryptionError" }
    \/ o.res = "Io" /\ o.at = "generate_random_iv"

\* The file is empty or holds a part of a container only.
EmptyOrPartial(f) == f.fields < HEADER_FIELDS \/ f.blob = EmptyBlob

\* C12 (sync touches the file last): for every store reached and every
\* result of sync on it, a failure of the JSON encoding, of the random
\* source or of the encryption leaves the file's content as it was; the
\* file is left changed and empty or partial only by an Io error raised at
\* or after the truncation; and every step that is a sync
\* leaves the store, its key, salt, scrypt parameters and records, as it
\* was.
C12_SyncFrame ==
    /\ [](store.live =>
            \A o \in SyncOutcomes(store, file) :
                /\ SyncFailsInPreparation(o) => o.file = file
                /\ (o.file # file /\ EmptyOrPartial(o.file)) =>
                      (o.res = "Io" /\ o.at \in { "set_len", "write_all", "sync_all" }))
    /\ [][last'.op = "sync" => (store' = store /\ origin' = origin)]_vars

\* A sync that failed in the encryption on a store changed since the file
\* was written: the file still holds the complete earlier container.
C12_Witness ==
    /\ last.op = "sync"
    /\ last.res = "EncryptionError"
    /\ written.ok
    /\ written.passwords # store.passwords
    /\ file.fields = HEADER_FIELDS

====
